---- MODULE Spec2Model ----
(***************************************************************************)
(* A model of the text_analys repository.                                  *)
(*                                                                         *)
(*   generate_text.py  the incremental Markov-chain text generator, run    *)
(*                     from the command line (specification Spec);         *)
(*   text_stats.py     open_file, clean_text and get_frequencies           *)
(*                     (get_frequencies: specification SpecStats).         *)
(*                                                                         *)
(* Words and raw tokens are strings.  Python dicts of the generator are    *)
(* functions whose DOMAIN is the dict's key set; the dicts returned by     *)
(* get_frequencies, whose order is part of the result, are sequences of    *)
(* <<key, count>> entries in insertion order.                              *)
(***************************************************************************)
EXTENDS Integers, Sequences, FiniteSets, TLC

VARIABLES
    \* ---- generate_text.py ----
    pc,              \* position in the script
    argv,            \* sys.argv (argv[1] is the script name, sys.argv[0])
    now,             \* clock ticks since start_time (line 25), as last read
    current_word,    \* generate_text.py:30, :78
    n_words,         \* generate_text.py:31
    input_text,      \* generate_text.py:46
    generated_text,  \* generate_text.py:54
    word_count,      \* generate_text.py:55
    wordpair_count,  \* generate_text.py:56
    draw_p,          \* the distribution np.random.choice drew from at line 78
    stdout,          \* what has been printed, in order
    \* ---- text_stats.get_frequencies ----
    spc,             \* "call" before the call, "returned" after it
    words,           \* argument words
    look_for,        \* argument look_for: [kind |-> "all"] or [kind |-> "list", of |-> the words]
    letter_freq,     \* argument letter_freq
    ret              \* the returned tuple

gen_vars == <<pc, argv, now, current_word, n_words, input_text, generated_text,
              word_count, wordpair_count, draw_p, stdout>>
stats_vars == <<spc, words, look_for, letter_freq, ret>>
vars == <<pc, argv, now, current_word, n_words, input_text, generated_text,
          word_count, wordpair_count, draw_p, stdout,
          spc, words, look_for, letter_freq, ret>>

(***************************************************************************)
(* Bounds of the model.                                                    *)
(***************************************************************************)
\* longest file (in tokens) drawn from the small vocabulary
MaxLen == 4
\* largest number of words asked for on the command line
MaxTarget == 4
\* the clock is read in ticks of TickSeconds seconds, up to MaxTicks ticks
TickSeconds == 30
MaxTicks == 2

\* generate_text.py:59, :82: the time limit, in seconds
TimeLimit == 60

None == "None"
\* look_for is the string "all" (the default) or a list of words
LookForAll == [kind |-> "all", of |-> {}]

(***************************************************************************)
(* Vocabulary.                                                             *)
(***************************************************************************)
Vocabulary == {"a", "b", "c"}
\* raw tokens of a file: words, a capitalised word with punctuation, and a
\* token without any letter
RawTokens == Vocabulary \cup {"B.", "--"}
\* the corpus of the end-to-end example
ExampleCorpus == <<"the", "cat", "sat", "on", "the", "mat", "the", "cat", "ran">>

SeqsUpTo(S, n) == UNION {[1..k -> S] : k \in 0..n}
RawFiles == SeqsUpTo(RawTokens, MaxLen) \cup {ExampleCorpus}

\* elapsed seconds at clock reading t
Seconds(t) == t * TickSeconds
\* the readings time() can return after the reading t: the clock never goes back
LaterReadings(t) == {u \in 0..MaxTicks : u >= t}

(***************************************************************************)
(* String conversions, by table over the strings of the model.             *)
(***************************************************************************)
\* str.lower()
Lower(s) ==
    CASE s = "A" -> "a"
      [] s = "B" -> "b"
      [] s = "C" -> "c"
      [] s = "The" -> "the"
      [] OTHER -> s

\* "".join(filter(lambda x: x.isalpha() or x == " ", text)), on one token
KeepLetters(t) ==
    CASE t = "B." -> "B"
      [] t = "--" -> ""
      [] OTHER -> t

\* decimal literals int() accepts
Numerals == <<"0", "1", "2", "3", "4", "5", "6">>
IsIntLiteral(s) == s = "-1" \/ \E k \in 1..Len(Numerals) : Numerals[k] = s
\* int(s), for s an integer literal
IntValue(s) ==
    IF s = "-1" THEN -1
    ELSE (CHOOSE k \in 1..Len(Numerals) : Numerals[k] = s) - 1

(***************************************************************************)
(* text_stats.py: open_file, clean_text                                    *)
(***************************************************************************)
\* the files of the file system: "corpus.txt" exists, nothing else does
FileExists(filename) == filename = "corpus.txt"

RECURSIVE DropEmpty(_)
\* list(filter(lambda x: x != "", text))
DropEmpty(toks) ==
    IF toks = <<>> THEN <<>>
    ELSE IF Head(toks) = "" THEN DropEmpty(Tail(toks))
         ELSE <<Head(toks)>> \o DropEmpty(Tail(toks))

\* clean_text(text): the text is given as its space-separated raw tokens
clean_text(raw) ==
    DropEmpty([i \in 1..Len(raw) |-> Lower(KeepLetters(raw[i]))])

(***************************************************************************)
(* generate_text.py: helpers                                               *)
(***************************************************************************)
Say(kind, text) == Append(stdout, [kind |-> kind, text |-> text])

\* sys.argv[k]
Arg(k) == argv[k + 1]
\* sys.argv[1], sys.argv[2] and int(sys.argv[3]) all evaluate without raising
ArgsOk == Len(argv) >= 4 /\ IsIntLiteral(Arg(3))

\* a membership test that never fails
InList_Always(word, text) == TRUE

\* word in text (a list)
InList(word, text) == \E i \in 1..Len(text) : text[i] = word

RECURSIVE ListCount(_, _)
\* text.count(word)
ListCount(text, word) ==
    IF text = <<>> THEN 0
    ELSE (IF Head(text) = word THEN 1 ELSE 0) + ListCount(Tail(text), word)

EmptyDict == [k \in {} |-> 0]

\* d[k] = 1 if k is not in d, else d[k] += 1
IncPair(d, k) ==
    IF k \in DOMAIN d THEN [d EXCEPT ![k] = @ + 1]
    ELSE [x \in DOMAIN d \cup {k} |-> IF x = k THEN 1 ELSE d[x]]

\* the scan stopping one position early: range(len(input_text)-2)
ScanLast_Short(text) == Len(text) - 2

\* the last index of range(len(input_text)-1), counting from 1
ScanLast(text) == Len(text) - 1

RECURSIVE ScanPairs(_, _, _, _)
\* the for loop of lines 63-68, from index i on
ScanPairs(text, word, wpc, i) ==
    IF i > ScanLast(text) THEN wpc
    ELSE ScanPairs(text, word,
                   IF text[i] = word THEN IncPair(wpc, <<word, text[i + 1]>>)
                   ELSE wpc,
                   i + 1)

\* the statistics rebuilt on every visit
NotVisited_Always(word, wc) == TRUE

\* current_word not in word_count
NotVisited(word, wc) == word \notin DOMAIN wc

\* the successors of every word recorded so far: the filter on x[0] dropped
Candidates_Unfiltered(word, wpc) == {k[2] : k \in DOMAIN wpc}

\* lines 75-76: the successors recorded for word
Candidates(word, wpc) == {k[2] : k \in {x \in DOMAIN wpc : x[1] = word}}

\* line 77: the weight of each candidate
Weights(word, wpc) == [c \in Candidates(word, wpc) |-> wpc[<<word, c>>]]

\* np.random.choice(a, size, replace, p): the probability <<numerator,
\* denominator>> with which each element of a is drawn; p = None is the
\* uniform distribution over a
ChoiceProbability(a, size, replace, p) ==
    IF p = None THEN [x \in a |-> <<1, Cardinality(a)>>]
    ELSE p

\* the limit itself still counted as within the limit: <= 60
WithinTimeLimit_Inclusive(t) == Seconds(t) <= TimeLimit

\* time()-start_time < 60
WithinTimeLimit(t) == Seconds(t) < TimeLimit

(***************************************************************************)
(* generate_text.py: the script                                            *)
(***************************************************************************)
SeedArgs == {"a", "B", "c", "The", "z"}
CountArgs == {"-1", "x"} \cup {Numerals[k + 1] : k \in 0..MaxTarget}
CommandLines ==
    {<<"generate_text.py", f, s, n>> : f \in {"corpus.txt"}, s \in SeedArgs, n \in CountArgs}
    \cup {<<"generate_text.py", "missing.txt", "a", "2">>,
          <<"generate_text.py", "corpus.txt", "a">>}

StatsIdle ==
    /\ spc = "idle"
    /\ words = <<>>
    /\ look_for = LookForAll
    /\ letter_freq = TRUE
    /\ ret = <<>>

Init ==
    /\ pc = "args"
    /\ argv \in CommandLines
    /\ now = 0
    /\ current_word = None
    /\ n_words = 0
    /\ input_text = <<>>
    /\ generated_text = <<>>
    /\ word_count = EmptyDict
    /\ wordpair_count = EmptyDict
    /\ draw_p = EmptyDict
    /\ stdout = <<[kind |-> "banner", text |-> <<>>]>>
    /\ StatsIdle

\* lines 28-40
ProcessArgs ==
    /\ pc = "args"
    /\ IF ArgsOk
       THEN /\ current_word' = Lower(Arg(2))
            /\ n_words' = IntValue(Arg(3))
            /\ pc' = "read"
            /\ stdout' = stdout
       ELSE /\ stdout' = Say("usage", <<>>)
            /\ pc' = "exit"
            /\ UNCHANGED <<current_word, n_words>>
    /\ UNCHANGED <<argv, now, input_text, generated_text, word_count,
                   wordpair_count, draw_p>>
    /\ UNCHANGED stats_vars

\* lines 45-46: text_stats.open_file and text_stats.clean_text
ReadFile ==
    /\ pc = "read"
    /\ IF FileExists(Arg(1))
       THEN \E raw \in RawFiles :
              /\ input_text' = clean_text(raw)
              /\ pc' = "verify"
              /\ stdout' = stdout
       ELSE /\ stdout' = Say("file_error", <<>>)
            /\ pc' = "exit"
            /\ input_text' = input_text
    /\ UNCHANGED <<argv, now, current_word, n_words, generated_text, word_count,
                   wordpair_count, draw_p>>
    /\ UNCHANGED stats_vars

\* lines 49-56
VerifySeed ==
    /\ pc = "verify"
    /\ IF ~InList(current_word, input_text)
       THEN /\ stdout' = Say("unknown_seed", <<current_word>>)
            /\ pc' = "exit"
            /\ UNCHANGED <<generated_text, word_count, wordpair_count>>
       ELSE /\ generated_text' = <<current_word>>
            /\ word_count' = EmptyDict
            /\ wordpair_count' = EmptyDict
            /\ pc' = "while"
            /\ stdout' = stdout
    /\ UNCHANGED <<argv, now, current_word, n_words, input_text, draw_p>>
    /\ UNCHANGED stats_vars

\* line 59: the condition of the while loop; `and` reads the clock only when
\* the text is still too short
LoopCheck ==
    /\ pc = "while"
    /\ IF Len(generated_text) < n_words
       THEN \E t \in LaterReadings(now) :
              /\ now' = t
              /\ pc' = IF WithinTimeLimit(t) THEN "build" ELSE "after"
       ELSE /\ now' = now
            /\ pc' = "after"
    /\ UNCHANGED <<argv, current_word, n_words, input_text, generated_text,
                   word_count, wordpair_count, draw_p, stdout>>
    /\ UNCHANGED stats_vars

\* lines 61-72
BuildStats ==
    /\ pc = "build"
    /\ wordpair_count' =
         IF NotVisited(current_word, word_count)
         THEN ScanPairs(input_text, current_word, wordpair_count, 1)
         ELSE wordpair_count
    /\ word_count' =
         IF NotVisited(current_word, word_count)
         THEN [w \in DOMAIN word_count \cup {current_word} |->
                 IF w = current_word THEN ListCount(input_text, current_word)
                 ELSE word_count[w]]
         ELSE word_count
    /\ pc' = "draw"
    /\ UNCHANGED <<argv, now, current_word, n_words, input_text, generated_text,
                   draw_p, stdout>>
    /\ UNCHANGED stats_vars

\* lines 75-80; np.random.choice is called as (a, size, replace) = (candidates,
\* 1, weights), p is left at its default None; it raises ValueError on an
\* empty a
Draw ==
    /\ pc = "draw"
    /\ LET candidates == Candidates(current_word, wordpair_count)
           weights == Weights(current_word, wordpair_count)
       IN IF candidates = {}
          THEN /\ pc' = "crashed"
               /\ UNCHANGED <<current_word, generated_text, draw_p>>
          ELSE \E c \in candidates :
                 /\ draw_p' = ChoiceProbability(candidates, 1, weights, None)
                 /\ current_word' = c
                 /\ generated_text' = Append(generated_text, c)
                 /\ pc' = "while"
    /\ UNCHANGED <<argv, now, n_words, input_text, word_count, wordpair_count,
                   stdout>>
    /\ UNCHANGED stats_vars

\* line 82
AfterLoop ==
    /\ pc = "after"
    /\ \E t \in LaterReadings(now) :
         /\ now' = t
         /\ stdout' = IF Seconds(t) >= TimeLimit THEN Say("time_limit", <<>>)
                      ELSE stdout
    /\ pc' = "print"
    /\ UNCHANGED <<argv, current_word, n_words, input_text, generated_text,
                   word_count, wordpair_count, draw_p>>
    /\ UNCHANGED stats_vars

\* lines 85-88
PrintText ==
    /\ pc = "print"
    /\ stdout' = Say("generated", generated_text)
    /\ pc' = "done"
    /\ UNCHANGED <<argv, now, current_word, n_words, input_text, generated_text,
                   word_count, wordpair_count, draw_p>>
    /\ UNCHANGED stats_vars

Next ==
    \/ ProcessArgs
    \/ ReadFile
    \/ VerifySeed
    \/ LoopCheck
    \/ BuildStats
    \/ Draw
    \/ AfterLoop
    \/ PrintText

Spec == Init /\ [][Next]_vars

(***************************************************************************)
(* text_stats.py: get_frequencies                                          *)
(*                                                                         *)
(* A dict whose order matters is a sequence of <<key, count>> entries in   *)
(* insertion order.                                                        *)
(***************************************************************************)
\* key in d
DictHas(d, key) == \E i \in 1..Len(d) : d[i][1] = key
\* d[key]
DictGet(d, key) == d[CHOOSE i \in 1..Len(d) : d[i][1] = key][2]
\* if key in d: d[key] += 1, else: d[key] = 1 (a new key goes last)
DictCount(d, key) ==
    IF DictHas(d, key)
    THEN [i \in 1..Len(d) |-> IF d[i][1] = key THEN <<key, d[i][2] + 1>> ELSE d[i]]
    ELSE Append(d, <<key, 1>>)

\* where sorted(..., key = count, reverse=True) puts entry e among the
\* entries s already placed: after every entry whose count is not smaller
\* (the sort is stable, and reverse=True keeps the order of equal counts)
PlaceDescending(s, e) ==
    LET p == Cardinality({i \in 1..Len(s) : s[i][2] >= e[2]})
    IN SubSeq(s, 1, p) \o <<e>> \o SubSeq(s, p + 1, Len(s))

\* the dict left in insertion order
SortedDescending_Unsorted(d) == d

RECURSIVE SortedDescending(_)
\* dict(sorted(d.items(), key = lambda item: item[1], reverse=True))
SortedDescending(d) ==
    IF d = <<>> THEN <<>>
    ELSE PlaceDescending(SortedDescending(SubSeq(d, 1, Len(d) - 1)), d[Len(d)])

\* look_for == "all" or word in look_for
LookedFor(word, lf) == lf.kind = "all" \/ word \in lf.of

RECURSIVE CountWordsFrom(_, _, _, _)
\* the for loop of lines 89-94, from index i on
CountWordsFrom(ws, lf, d, i) ==
    IF i > Len(ws) THEN d
    ELSE CountWordsFrom(ws, lf,
                        IF LookedFor(ws[i], lf) THEN DictCount(d, ws[i]) ELSE d,
                        i + 1)

RECURSIVE CountPairsFrom(_, _, _, _)
\* the for loop of lines 104-110, from index i on
CountPairsFrom(ws, lf, d, i) ==
    IF i > Len(ws) - 1 THEN d
    ELSE CountPairsFrom(ws, lf,
                        IF LookedFor(ws[i], lf)
                        THEN DictCount(d, <<ws[i], ws[i + 1]>>) ELSE d,
                        i + 1)

\* the letters of a word, in order
Spell(w) ==
    CASE w = "the" -> <<"t", "h", "e">>
      [] w = "cat" -> <<"c", "a", "t">>
      [] w = "sat" -> <<"s", "a", "t">>
      [] w = "on"  -> <<"o", "n">>
      [] w = "mat" -> <<"m", "a", "t">>
      [] w = "ran" -> <<"r", "a", "n">>
      [] OTHER -> <<w>>

RECURSIVE JoinLetters(_)
\* "".join(words), letter by letter
JoinLetters(ws) ==
    IF ws = <<>> THEN <<>> ELSE Spell(Head(ws)) \o JoinLetters(Tail(ws))

RECURSIVE CountLettersFrom(_, _, _)
\* the for loop of lines 117-120, from index i on
CountLettersFrom(letters, d, i) ==
    IF i > Len(letters) THEN d
    ELSE CountLettersFrom(letters, DictCount(d, letters[i]), i + 1)

\* line 95
WordCountOf(ws, lf) == SortedDescending(CountWordsFrom(ws, lf, <<>>, 1))
\* line 111
WordPairCountOf(ws, lf) == SortedDescending(CountPairsFrom(ws, lf, <<>>, 1))
\* line 121
LetterCountOf(ws) == SortedDescending(CountLettersFrom(JoinLetters(ws), <<>>, 1))

\* get_frequencies(words, look_for, letter_freq): the returned tuple
get_frequencies(ws, lf, with_letters) ==
    IF with_letters
    THEN <<LetterCountOf(ws), WordCountOf(ws, lf), WordPairCountOf(ws, lf)>>
    ELSE <<WordCountOf(ws, lf), WordPairCountOf(ws, lf)>>

\* the word lists get_frequencies is called on: what clean_text returns
WordLists == {clean_text(raw) : raw \in RawFiles}
LookFors == {LookForAll} \cup {[kind |-> "list", of |-> S] : S \in SUBSET Vocabulary}

GenIdle ==
    /\ pc = "idle"
    /\ argv = <<>>
    /\ now = 0
    /\ current_word = None
    /\ n_words = 0
    /\ input_text = <<>>
    /\ generated_text = <<>>
    /\ word_count = EmptyDict
    /\ wordpair_count = EmptyDict
    /\ draw_p = EmptyDict
    /\ stdout = <<>>

InitStats ==
    /\ spc = "call"
    /\ words \in WordLists
    /\ look_for \in LookFors
    /\ letter_freq \in BOOLEAN
    /\ ret = <<>>
    /\ GenIdle

\* lines 63-125
GetFrequencies ==
    /\ spc = "call"
    /\ ret' = get_frequencies(words, look_for, letter_freq)
    /\ spc' = "returned"
    /\ UNCHANGED <<words, look_for, letter_freq>>
    /\ UNCHANGED gen_vars

NextStats == GetFrequencies

SpecStats == InitStats /\ [][NextStats]_vars

(***************************************************************************)
(* Properties of the generator (specification Spec).                       *)
(***************************************************************************)
\* positions of the corpus where word occurs
Occurrences(word) == {i \in 1..Len(input_text) : input_text[i] = word}
\* positions of the corpus where succ immediately follows word
Transitions(word, succ) ==
    {i \in 1..(Len(input_text) - 1) : input_text[i] = word /\ input_text[i + 1] = succ}
\* the successors wordpair_count records for word
RecordedSuccessors(word) == {k[2] : k \in {x \in DOMAIN wordpair_count : x[1] = word}}

RECURSIVE SumOf(_, _)
\* the sum of f over the set S
SumOf(f, S) ==
    IF S = {} THEN 0
    ELSE LET x == CHOOSE y \in S : TRUE IN f[x] + SumOf(f, S \ {x})

\* the sum of the transition counts recorded for word
RecordedTotal(word) ==
    SumOf([s \in RecordedSuccessors(word) |-> wordpair_count[<<word, s>>]],
          RecordedSuccessors(word))

Printed(kind) == \E i \in 1..Len(stdout) : stdout[i].kind = kind

\* C1: every word of the generated sequence after the first follows its
\* predecessor somewhere in the corpus.
C1_SuccessorFollowsInCorpus ==
    \A k \in 2..Len(generated_text) :
        Transitions(generated_text[k - 1], generated_text[k]) # {}

C1_Witness == Len(generated_text) >= 3 /\ pc = "done"

\* C2: when the current word has no recorded successor, the draw step ends
\* the generation and keeps the sequence generated so far, instead of
\* crashing.
C2_EmptyCandidatesTerminate ==
    [][(pc = "draw" /\ RecordedSuccessors(current_word) = {})
         => (pc' = "after" /\ generated_text' = generated_text)]_vars

\* C3: each candidate s is drawn with probability count(w, s) divided by the
\* sum of the counts of w's successors; in the example corpus "cat" is drawn
\* after "the" with probability 2/3 and "mat" with probability 1/3.
C3_DrawProportionalToCount ==
    \A s \in DOMAIN draw_p :
        LET w == generated_text[Len(generated_text) - 1]
        IN /\ draw_p[s][1] * RecordedTotal(w) = wordpair_count[<<w, s>>] * draw_p[s][2]
           /\ (input_text = ExampleCorpus /\ w = "the" /\ s = "cat")
                => draw_p[s][1] * 3 = 2 * draw_p[s][2]
           /\ (input_text = ExampleCorpus /\ w = "the" /\ s = "mat")
                => draw_p[s][1] * 3 = 1 * draw_p[s][2]

\* C4: when the lowercased seed word is not in the corpus, the generator
\* stops with the unknown-seed message: the loop is never entered, no
\* statistics entry is created and no generated text is printed.
C4_UnknownSeedStops ==
    (/\ pc \notin {"args", "read"}
     /\ Len(argv) >= 4
     /\ Printed("usage") = FALSE
     /\ Printed("file_error") = FALSE
     /\ Occurrences(Lower(Arg(2))) = {})
    => /\ pc \in {"verify", "exit"}
       /\ generated_text = <<>>
       /\ DOMAIN word_count = {}
       /\ DOMAIN wordpair_count = {}
       /\ ~Printed("generated")
       /\ pc = "exit" => stdout[Len(stdout)] = [kind |-> "unknown_seed",
                                                text |-> <<Lower(Arg(2))>>]

C4_Witness ==
    /\ pc = "exit"
    /\ Printed("unknown_seed")
    /\ input_text # <<>>
    /\ Arg(2) = "B"

\* C5: a target length that is not a positive integer is rejected: the
\* script never runs to its end and no generated text is printed (the usage
\* message is what a rejected command line gets).
C5_InvalidLengthRejected ==
    (/\ Len(argv) >= 4
     /\ ~(IsIntLiteral(Arg(3)) /\ IntValue(Arg(3)) > 0))
    => /\ pc # "done"
       /\ ~Printed("generated")
       /\ (pc = "exit" /\ ~IsIntLiteral(Arg(3))) => Printed("usage")

\* C6: once a word is a key of word_count, its frequency and its transition
\* entries are never changed, added or removed by any later step.
C6_StatisticsBuiltOnce ==
    [][\A w \in DOMAIN word_count :
         /\ w \in DOMAIN word_count'
         /\ word_count'[w] = word_count[w]
         /\ \A k \in DOMAIN wordpair_count \cup DOMAIN wordpair_count' :
              k[1] = w =>
                /\ k \in DOMAIN wordpair_count
                /\ k \in DOMAIN wordpair_count'
                /\ wordpair_count'[k] = wordpair_count[k]]_vars

C6_Witness ==
    /\ pc = "draw"
    /\ \E k \in 1..(Len(generated_text) - 1) : generated_text[k] = current_word

\* C7: for every key w of word_count, word_count[w] is the number of
\* occurrences of w in the corpus, wordpair_count[(w, s)] is the number of
\* positions where s follows w (the pair being absent exactly when that
\* number is 0), and word_count[w] is at least the sum of w's transition
\* counts.
C7_StatisticsMatchCorpus ==
    \A w \in DOMAIN word_count :
        /\ word_count[w] = Cardinality(Occurrences(w))
        /\ \A s \in RecordedSuccessors(w) \cup {input_text[i] : i \in 1..Len(input_text)} :
             /\ <<w, s>> \in DOMAIN wordpair_count <=> Transitions(w, s) # {}
             /\ <<w, s>> \in DOMAIN wordpair_count
                  => wordpair_count[<<w, s>>] = Cardinality(Transitions(w, s))
        /\ word_count[w] >= RecordedTotal(w)

C7_Witness ==
    \E w \in DOMAIN word_count :
        /\ Cardinality(RecordedSuccessors(w)) >= 2
        /\ word_count[w] > RecordedTotal(w)

\* C8: when the first check of the loop condition reads a clock at or over
\* the time limit and more than one word is asked for, no iteration runs,
\* and from there the script only prints: the sequence stays the seed word
\* alone and the script ends without an error.
C8_NoIterationOverBudget ==
    [][/\ (/\ pc = "while"
           /\ Len(generated_text) = 1
           /\ n_words > 1
           /\ Seconds(now') >= TimeLimit)
         => (pc' = "after" /\ generated_text' = <<Lower(Arg(2))>>)
       /\ pc = "after" => (pc' = "print" /\ generated_text' = generated_text)
       /\ pc = "print" => (pc' = "done" /\ generated_text' = generated_text)]_vars

C8_Witness ==
    /\ pc = "done"
    /\ n_words > 1
    /\ generated_text = <<Lower(Arg(2))>>
    /\ stdout[Len(stdout)] = [kind |-> "generated", text |-> <<Lower(Arg(2))>>]

\* C9: the time-limit message is printed exactly when the loop ended on the
\* time limit, that is, with the sequence still shorter than the target.
C9_MessageMatchesStopReason ==
    pc \in {"print", "done"}
    => (Printed("time_limit") <=> Len(generated_text) < n_words)

(***************************************************************************)
(* Properties of get_frequencies (specification SpecStats).                *)
(***************************************************************************)
\* the position of key in the ordered dict d
RankOf(d, key) == CHOOSE i \in 1..Len(d) : d[i][1] = key

\* d is an ordered dict holding exactly the counts given by TrueCount on Keys
HoldsCounts(d, Keys, TrueCount(_)) ==
    /\ {d[i][1] : i \in 1..Len(d)} = Keys
    /\ \A i, j \in 1..Len(d) : d[i][1] = d[j][1] => i = j
    /\ \A i \in 1..Len(d) : d[i][2] = TrueCount(d[i][1])

NonIncreasing(d) == \A i, j \in 1..Len(d) : i < j => d[i][2] >= d[j][2]

\* C10: with look_for = "all", the word counts and word-pair counts returned
\* are the true counts in words, each ordered by non-increasing count; on
\* the example corpus "the" comes before "cat", which comes before every
\* word of count 1, and the pair (the, cat) has count 2.
C10_FrequenciesCountedAndRanked ==
    (spc = "returned" /\ look_for = LookForAll) =>
        LET wordcount == ret[Len(ret) - 1]
            wordpaircount == ret[Len(ret)]
            WordTrue(w) == Cardinality({i \in 1..Len(words) : words[i] = w})
            PairTrue(k) == Cardinality({i \in 1..(Len(words) - 1) :
                                          words[i] = k[1] /\ words[i + 1] = k[2]})
        IN /\ HoldsCounts(wordcount, {words[i] : i \in 1..Len(words)}, WordTrue)
           /\ HoldsCounts(wordpaircount,
                          {<<words[i], words[i + 1]>> : i \in 1..(Len(words) - 1)},
                          PairTrue)
           /\ NonIncreasing(wordcount)
           /\ NonIncreasing(wordpaircount)
           /\ words = ExampleCorpus =>
                /\ RankOf(wordcount, "the") < RankOf(wordcount, "cat")
                /\ \A w \in {"sat", "on", "mat", "ran"} :
                     RankOf(wordcount, "cat") < RankOf(wordcount, w)
                /\ DictGet(wordpaircount, <<"the", "cat">>) = 2

C10_Witness ==
    /\ spc = "returned"
    /\ look_for = LookForAll
    /\ letter_freq
    /\ words = ExampleCorpus

====
